---- MODULE Spec2Model ----
(***************************************************************************)
(* Foot-traffic forecast service: MasterFootTrafficAgent (signal fusion)   *)
(* and the cached GET /api/foot-traffic-forecast endpoint.                 *)
(*                                                                         *)
(* Numbers.  Inputs and outputs are decimals held in integers:             *)
(*   customers per hour (deltas, extra, total)  in tenths,                 *)
(*   confidences and weights                    in hundredths,             *)
(*   baselines                                  in hundredths,             *)
(*   wall-clock time                            in seconds.                *)
(* Inside combine_signals they are Python floats: IEEE 754 binary64 with   *)
(* every operation rounded to nearest, ties to even.                       *)
(* A Python value that may be None is a set: {} is None, {v} is v.         *)
(***************************************************************************)
EXTENDS Integers, Sequences, FiniteSets, Bags, TLC

VARIABLES
    now,        \* time.time(), seconds
    cache,      \* _FORECAST_CACHE: key -> [expiry, result]
    req,        \* per request: the state of one get_foot_traffic_forecast call
    stored,     \* history: key -> the last _set_cached of it: when, by which
                \* request, the requests in flight then, whether it replaced
                \* an unexpired entry and whose
    agent,      \* one MasterFootTrafficAgent.run call, thread by thread
    fz,         \* one combine_signals call of each orchestrator: inputs, outputs
    ky,         \* two _cache_key calls: the queries and their keys
    ua          \* the uAgents orchestrator (uagents_system/master_agent_uagent.py)

vars == <<now, cache, stored, req, agent, fz, ky, ua>>

-----------------------------------------------------------------------------
(* Optional values and dict.get *)

None == {}
Num(v) == {v}
IsNone(x) == x = {}
Val(x) == CHOOSE v \in x : TRUE

\* dict.get(k, default): the default only when the key is absent
Get(out, k, default) == IF k \in DOMAIN out THEN out[k] ELSE default

-----------------------------------------------------------------------------
(* Python float arithmetic *)

(* Natural numbers of any size: little-endian sequences of limbs, no    *)
(* leading zero limb; <<>> is 0.                                         *)
LimbBits == 14
LimbBase == 2^LimbBits

Hd(a) == IF a = <<>> THEN 0 ELSE Head(a)
Tl(a) == IF a = <<>> THEN <<>> ELSE Tail(a)

RECURSIVE BigTrim(_)
BigTrim(a) ==
    IF a = <<>> THEN a
    ELSE IF a[Len(a)] = 0 THEN BigTrim(SubSeq(a, 1, Len(a) - 1)) ELSE a

RECURSIVE BigFromInt(_)
BigFromInt(n) ==
    IF n = 0 THEN <<>> ELSE <<n % LimbBase>> \o BigFromInt(n \div LimbBase)

RECURSIVE BigToInt(_)
BigToInt(a) == IF a = <<>> THEN 0 ELSE Head(a) + LimbBase * BigToInt(Tail(a))

RECURSIVE BigAddC(_, _, _)
BigAddC(a, b, c) ==
    IF a = <<>> /\ b = <<>> THEN BigFromInt(c)
    ELSE LET s == Hd(a) + Hd(b) + c
         IN  <<s % LimbBase>> \o BigAddC(Tl(a), Tl(b), s \div LimbBase)

BigAdd(a, b) == BigAddC(a, b, 0)

\* a - b for a >= b
RECURSIVE BigSubB(_, _, _)
BigSubB(a, b, borrow) ==
    IF a = <<>> THEN <<>>
    ELSE LET d == Head(a) - Hd(b) - borrow
         IN  <<d % LimbBase>> \o BigSubB(Tail(a), Tl(b), IF d < 0 THEN 1 ELSE 0)

BigSub(a, b) == BigTrim(BigSubB(a, b, 0))

RECURSIVE BigCmpAt(_, _, _)
BigCmpAt(a, b, i) ==
    IF i = 0 THEN 0
    ELSE IF a[i] # b[i] THEN (IF a[i] < b[i] THEN -1 ELSE 1)
    ELSE BigCmpAt(a, b, i - 1)

\* -1, 0, 1 as a < b, a = b, a > b
BigCmp(a, b) ==
    IF Len(a) # Len(b) THEN (IF Len(a) < Len(b) THEN -1 ELSE 1)
    ELSE BigCmpAt(a, b, Len(a))

\* a * k + c for 0 <= k <= LimbBase
RECURSIVE BigMulSmallC(_, _, _)
BigMulSmallC(a, k, c) ==
    IF a = <<>> THEN BigFromInt(c)
    ELSE LET p == Head(a) * k + c
         IN  <<p % LimbBase>> \o BigMulSmallC(Tail(a), k, p \div LimbBase)

BigMulSmall(a, k) == IF k = 0 THEN <<>> ELSE BigMulSmallC(a, k, 0)

BigShlLimbs(a, n) == IF a = <<>> THEN a ELSE [i \in 1..n |-> 0] \o a

RECURSIVE BigMul(_, _)
BigMul(a, b) ==
    IF a = <<>> \/ b = <<>> THEN <<>>
    ELSE BigAdd(BigMulSmall(a, Head(b)), BigShlLimbs(BigMul(a, Tail(b)), 1))

\* the quotient limbs of a \div d for 0 < d <= LimbBase, from the top limb down
RECURSIVE BigDivSmallAt(_, _, _, _)
BigDivSmallAt(a, d, i, rem) ==
    IF i = 0 THEN <<>>
    ELSE LET cur == rem * LimbBase + a[i]
         IN  BigDivSmallAt(a, d, i - 1, cur % d) \o <<cur \div d>>

BigDivSmall(a, d) == BigTrim(BigDivSmallAt(a, d, Len(a), 0))

BigShl(a, k) == BigShlLimbs(BigMulSmall(a, 2^(k % LimbBits)), k \div LimbBits)

BigShr(a, k) ==
    LET n == k \div LimbBits
    IN  IF n >= Len(a) THEN <<>>
        ELSE BigDivSmall(SubSeq(a, n + 1, Len(a)), 2^(k % LimbBits))

RECURSIVE IntBitLen(_)
IntBitLen(n) == IF n = 0 THEN 0 ELSE 1 + IntBitLen(n \div 2)

BigBitLen(a) ==
    IF a = <<>> THEN 0 ELSE LimbBits * (Len(a) - 1) + IntBitLen(a[Len(a)])

\* a \div 2^k rounded to nearest, ties to even
BigShrRound(a, k) ==
    IF k = 0 THEN a
    ELSE LET q    == BigShr(a, k)
             rem  == BigSub(a, BigShl(q, k))
             c    == BigCmp(rem, BigShl(<<1>>, k - 1))
             up   == c > 0 \/ (c = 0 /\ Hd(q) % 2 = 1)
         IN  IF up THEN BigAdd(q, <<1>>) ELSE q

BigLimb(a, i) == IF i <= Len(a) THEN a[i] ELSE 0

\* the largest q' <= q with b * q' <= r, given p = b * q: <<q', r - b * q'>>
RECURSIVE BigFit(_, _, _, _)
BigFit(r, b, q, p) ==
    IF BigCmp(p, r) > 0 THEN BigFit(r, b, q - 1, BigSub(p, b))
    ELSE <<q, BigSub(r, p)>>

\* one quotient limb: r \div b and r % b for r < b * LimbBase, where the top
\* limb of b is at least LimbBase / 2, so that the estimate from the two
\* top limbs of r is at most 2 too large
BigDivLimb(r, b) ==
    LET n    == Len(b)
        est  == (BigLimb(r, n + 1) * LimbBase + BigLimb(r, n)) \div b[n]
        qhat == IF est > LimbBase - 1 THEN LimbBase - 1 ELSE est
    IN  BigFit(r, b, qhat, BigMulSmall(b, qhat))

\* the limbs of floor(rem * LimbBase^n / b) for rem < b, and whether the
\* division left a remainder: <<quotient limbs, inexact>>
RECURSIVE BigDivFrac(_, _, _)
BigDivFrac(rem, b, n) ==
    IF n = 0 THEN <<<<>>, rem # <<>>>>
    ELSE LET step == BigDivLimb(BigShlLimbs(rem, 1), b)
             rest == BigDivFrac(step[2], b, n - 1)
         IN  <<rest[1] \o <<step[1]>>, rest[2]>>

\* the same for small integers 0 <= rem < d: floor(rem * LimbBase^n / d)
RECURSIVE IntDivFrac(_, _, _)
IntDivFrac(rem, d, n) ==
    IF n = 0 THEN <<<<>>, rem # 0>>
    ELSE LET cur  == rem * LimbBase
             rest == IntDivFrac(cur % d, d, n - 1)
         IN  <<rest[1] \o <<cur \div d>>, rest[2]>>

-----------------------------------------------------------------------------
(* IEEE 754 binary64, finite values of moderate size:                     *)
(* [sg, m, e] is sg * m * 2^e with 2^52 <= m < 2^53, or m = 0.            *)

MantBits == 53
FZero == [sg |-> 1, m |-> <<>>, e |-> 0]

\* sg * m * 2^e for a rounded mantissa m <= 2^53: rounding up may carry
FCarry(sg, m, e) ==
    IF BigBitLen(m) > MantBits
    THEN [sg |-> sg, m |-> BigShr(m, 1), e |-> e + 1]
    ELSE [sg |-> sg, m |-> m, e |-> e]

\* sg * n * 2^e rounded to nearest, ties to even
FNorm(sg, n, e) ==
    LET len == BigBitLen(n)
    IN  IF len = 0 THEN FZero
        ELSE IF len <= MantBits
        THEN [sg |-> sg, m |-> BigShl(n, MantBits - len), e |-> e - (MantBits - len)]
        ELSE FCarry(sg, BigShrRound(n, len - MantBits), e + (len - MantBits))

FFromInt(n) == FNorm(IF n < 0 THEN -1 ELSE 1, BigFromInt(IF n < 0 THEN -n ELSE n), 0)

FMul(x, y) == FNorm(x.sg * y.sg, BigMul(x.m, y.m), x.e + y.e)

\* xs * xm * 2^e + ys * ym * 2^e; an exact zero is +0.0
FAddAligned(xs, xm, ys, ym, e) ==
    FNorm(IF xs = ys \/ BigCmp(xm, ym) >= 0 THEN xs ELSE ys,
          IF xs = ys THEN BigAdd(xm, ym)
          ELSE IF BigCmp(xm, ym) >= 0 THEN BigSub(xm, ym)
          ELSE BigSub(ym, xm),
          e)

FAdd(x, y) ==
    IF x.m = <<>> THEN y
    ELSE IF y.m = <<>> THEN x
    ELSE LET e == IF x.e < y.e THEN x.e ELSE y.e
         IN  FAddAligned(x.sg, BigShl(x.m, x.e - e), y.sg, BigShl(y.m, y.e - e), e)

\* x / y for y # 0: the quotient to 4 limbs below the point, and a sticky bit
FDivQuotient(sg, whole, frac, e) ==
    FNorm(sg,
          BigMulSmallC(BigTrim(frac[1] \o <<whole>>), 2, IF frac[2] THEN 1 ELSE 0),
          e)

\* a / b for b with its top limb at least LimbBase / 2 and a < 2 * b
FDivAligned(sg, a, b, e) ==
    FDivQuotient(sg,
                 IF BigCmp(a, b) >= 0 THEN 1 ELSE 0,
                 BigDivFrac(IF BigCmp(a, b) >= 0 THEN BigSub(a, b) ELSE a, b, 4),
                 e)

FDiv(x, y) ==
    IF x.m = <<>> THEN FZero
    ELSE LET up == LimbBits * Len(y.m) - BigBitLen(y.m)
         IN  FDivAligned(x.sg * y.sg, BigShl(x.m, up), BigShl(y.m, up),
                         x.e - y.e - 4 * LimbBits - 1)

\* -1, 0, 1 as x < y, x = y, x > y
FCmp(x, y) ==
    LET sx == IF x.m = <<>> THEN 0 ELSE x.sg
        sy == IF y.m = <<>> THEN 0 ELSE y.sg
    IN  IF sx # sy THEN (IF sx < sy THEN -1 ELSE 1)
        ELSE IF sx = 0 THEN 0
        ELSE IF x.e # y.e THEN (IF x.e < y.e THEN -sx ELSE sx)
        ELSE sx * BigCmp(x.m, y.m)

\* the float nearest the decimal n / d, for 0 < d < 2^17: a literal such as 0.05
FFromDec(n, d) ==
    LET a    == IF n < 0 THEN -n ELSE n
        frac == IntDivFrac(a % d, d, 5)
        q    == BigTrim(frac[1] \o BigFromInt(a \div d))
        v    == BigMulSmallC(q, 2, IF frac[2] THEN 1 ELSE 0)
    IN  FNorm(IF n < 0 THEN -1 ELSE 1, v, -(5 * LimbBits) - 1)

\* round(x, k): the integer nearest to x * 10^k, ties (of the exact binary
\* value) to even
PyRound(x, k) ==
    IF x.m = <<>> THEN 0
    ELSE LET n == BigMulSmall(x.m, 10^k)
         IN  x.sg * BigToInt(IF x.e >= 0 THEN BigShl(n, x.e)
                             ELSE BigShrRound(n, -x.e))

\* max(a, b) and min(a, b): the first argument unless the second is beyond it
FMax(a, b) == IF FCmp(b, a) > 0 THEN b ELSE a
FMin(a, b) == IF FCmp(b, a) < 0 THEN b ELSE a

\* the floats of the decimals n / 10 and n / 100
Tenths(n) == FFromDec(n, 10)
Hundredths(n) == FFromDec(n, 100)

-----------------------------------------------------------------------------
(* agents/master_agent.py: normalisation of the providers' outputs.          *)
(* A provider output is a dict: a function from keys to optional numbers or  *)
(* strings.  A function that can raise returns [raised, value].              *)

SOURCES == <<"weather_event", "google_traffic", "mta_subway">>

normalize_weather_event(out) ==
    [raised |-> FALSE,
     value |-> [source |-> "weather_event",
                extra_customers_per_hour |-> Get(out, "predicted_traffic", Num(0)),
                confidence |-> Get(out, "confidence", Num(50)),
                explanation |-> Get(out, "reasoning", "")]]

normalize_google_traffic(out) ==
    [raised |-> FALSE,
     value |-> [source |-> "google_traffic",
                extra_customers_per_hour |->
                    Get(out, "expected_extra_customers_per_hour", Num(0)),
                confidence |-> Get(out, "confidence_0_to_1", Num(50)),
                explanation |-> Get(out, "rationale_bullets", "")]]

\* the 30 minute estimate is doubled: None * 2 is a TypeError
normalize_mta(out) ==
    LET half == Get(out, "expected_extra_customers_next_30_min", Num(0))
    IN  [raised |-> IsNone(half),
         value |-> [source |-> "mta_subway",
                    extra_customers_per_hour |->
                        IF IsNone(half) THEN None ELSE Num(Val(half) * 2),
                    confidence |-> Get(out, "confidence_0_to_1", Num(50)),
                    explanation |-> Get(out, "main_drivers", "")]]

Normalize(i, out) ==
    CASE i = 1 -> normalize_weather_event(out)
      [] i = 2 -> normalize_google_traffic(out)
      [] OTHER -> normalize_mta(out)

-----------------------------------------------------------------------------
(* MasterFootTrafficAgent.combine_signals *)

FloorWeight == 5            \* 0.05

\* mutant: no floor, a zero-confidence signal weighs nothing
WeightNoFloor(s) == Hundredths(Val(s.confidence))

\* w = max(0.05, s["confidence"])
Weight(s) == FMax(Hundredths(FloorWeight), Hundredths(Val(s.confidence)))

\* weighted_sum and weight_total after the loop, summed from 0.0 in list order
RECURSIVE weighted_sum(_)
weighted_sum(signals) ==
    IF signals = <<>> THEN FZero
    ELSE LET s == signals[Len(signals)]
         IN  FAdd(weighted_sum(SubSeq(signals, 1, Len(signals) - 1)),
                  FMul(Tenths(Val(s.extra_customers_per_hour)), Weight(s)))

\* mutant: every signal counts as one (a plain mean)
weight_total_count(signals) == FFromInt(Len(signals))

RECURSIVE weight_total(_)
weight_total(signals) ==
    IF signals = <<>> THEN FZero
    ELSE FAdd(weight_total(SubSeq(signals, 1, Len(signals) - 1)),
              Weight(signals[Len(signals)]))

\* arithmetic on None is a TypeError
SignalsTypeError(signals) ==
    \E i \in 1..Len(signals) :
        IsNone(signals[i].confidence) \/ IsNone(signals[i].extra_customers_per_hour)

\* the guardrails -0.5 * baseline and 1.5 * baseline
GuardLo(baseline) == FMul(FNorm(-1, <<1>>, -1), baseline)
GuardHi(baseline) == FMul(FNorm(1, <<3>>, -1), baseline)

\* weighted_sum / weight_total if weight_total > 0 else 0.0
Average(ws, wt) == IF FCmp(wt, FZero) > 0 THEN FDiv(ws, wt) ELSE FZero

\* extra_customers after the guardrails
ClampedExtra(signals, baseline) ==
    FMax(GuardLo(baseline),
         FMin(Average(weighted_sum(signals), weight_total(signals)),
              GuardHi(baseline)))

\* pct = (extra_customers / baseline) * 100 if baseline else 0
Pct(extra, baseline) ==
    IF baseline.m # <<>> THEN FMul(FDiv(extra, baseline), FFromInt(100)) ELSE FZero

\* mutant: a boundary value falls into the lower bucket
AtLeastStrict(pct, k) == FCmp(pct, FFromInt(k)) > 0

AtLeast(pct, k) == FCmp(pct, FFromInt(k)) >= 0

Summary(pct) ==
    IF AtLeast(pct, 50) THEN "Much higher than usual"
    ELSE IF AtLeast(pct, 15) THEN "Above baseline today"
    ELSE IF AtLeast(pct, -15) THEN "On par with usual"
    ELSE IF AtLeast(pct, -40) THEN "Below baseline today"
    ELSE "Much lower than usual"

\* mutant: no cap at 1.0
OverallConfidenceUncapped(signals) ==
    FDiv(weight_total(signals), FFromInt(Len(signals)))

\* min(1.0, weight_total / len(signals))
OverallConfidence(signals) ==
    FMin(FFromInt(1), FDiv(weight_total(signals), FFromInt(Len(signals))))

NoForecast ==
    [expected_extra_customers_per_hour |-> 0,
     expected_total_customers_per_hour |-> 0,
     confidence |-> 0,
     summary |-> <<>>]

\* raises on None operands and, for an empty list, on weight_total / len(signals)
\* the returned dict, from extra_customers after the guardrails
Forecast(signals, base, extra) ==
    [expected_extra_customers_per_hour |-> PyRound(extra, 1),
     expected_total_customers_per_hour |-> PyRound(FAdd(base, extra), 1),
     confidence |-> PyRound(OverallConfidence(signals), 2),
     summary |-> <<Summary(Pct(extra, base))>>]

Guarded(signals, base) == Forecast(signals, base, ClampedExtra(signals, base))

combine_signals(signals, baseline) ==
    IF SignalsTypeError(signals) \/ Len(signals) = 0
    THEN [raised |-> TRUE, value |-> NoForecast]
    ELSE [raised |-> FALSE, value |-> Guarded(signals, Hundredths(baseline))]

-----------------------------------------------------------------------------
(* uagents_system/master_agent_uagent.py: combine_signals(signals, baseline) *)

\* w = max(0.05, s["confidence"])
UWeight(s) == FMax(FFromDec(5, 100), Hundredths(Val(s.confidence)))

RECURSIVE u_weighted_sum(_)
u_weighted_sum(signals) ==
    IF signals = <<>> THEN FZero
    ELSE LET s == signals[Len(signals)]
         IN  FAdd(u_weighted_sum(SubSeq(signals, 1, Len(signals) - 1)),
                  FMul(Tenths(Val(s.extra_customers_per_hour)), UWeight(s)))

RECURSIVE u_weight_total(_)
u_weight_total(signals) ==
    IF signals = <<>> THEN FZero
    ELSE FAdd(u_weight_total(SubSeq(signals, 1, Len(signals) - 1)),
              UWeight(signals[Len(signals)]))

\* weighted_sum / weight_total if weight_total > 0 else 0.0
UAverage(ws, wt) == IF FCmp(FZero, wt) < 0 THEN FDiv(ws, wt) ELSE FZero

\* max(-0.5 * baseline, min(extra_customers, 1.5 * baseline))
UGuardrails(extra, baseline) ==
    FMax(FMul(FFromDec(-5, 10), baseline),
         FMin(extra, FMul(FFromDec(15, 10), baseline)))

\* pct = (extra_customers / baseline) * 100 if baseline else 0
UPct(extra, baseline) ==
    IF baseline.m = <<>> THEN FZero
    ELSE FMul(FDiv(extra, baseline), FFromInt(100))

\* the summary: a string
USummary(pct) ==
    IF AtLeast(pct, 50) THEN "Much higher than usual"
    ELSE IF AtLeast(pct, 15) THEN "Above baseline today"
    ELSE IF AtLeast(pct, -15) THEN "On par with usual"
    ELSE IF AtLeast(pct, -40) THEN "Below baseline today"
    ELSE "Much lower than usual"

\* min(1.0, weight_total / len(signals)) if signals else 0.5
UOverallConfidence(signals) ==
    IF Len(signals) > 0
    THEN FMin(FFromInt(1), FDiv(u_weight_total(signals), FFromInt(Len(signals))))
    ELSE FFromDec(5, 10)

NoUForecast ==
    [expected_extra_customers_per_hour |-> 0,
     expected_total_customers_per_hour |-> 0,
     overall_confidence |-> 0,
     summary |-> ""]

UForecast(signals, base, extra) ==
    [expected_extra_customers_per_hour |-> PyRound(extra, 1),
     expected_total_customers_per_hour |-> PyRound(FAdd(base, extra), 1),
     overall_confidence |-> PyRound(UOverallConfidence(signals), 2),
     summary |-> USummary(UPct(extra, base))]

UFused(signals, base) ==
    UForecast(signals, base,
              UGuardrails(UAverage(u_weighted_sum(signals), u_weight_total(signals)),
                          base))

\* raises on None operands only: the empty list is guarded
uagent_combine_signals(signals, baseline) ==
    IF SignalsTypeError(signals)
    THEN [raised |-> TRUE, value |-> NoUForecast]
    ELSE [raised |-> FALSE, value |-> UFused(signals, Hundredths(baseline))]

-----------------------------------------------------------------------------
(* MasterFootTrafficAgent.run, after asyncio.gather(return_exceptions=True). *)
(* results[i] is what provider i delivered:                                  *)
(*   [status |-> "returned", out |-> dict] or [status |-> "raised", ...].    *)

\* the signal standing in for a provider that raised
FallbackSignal(i) ==
    [source |-> SOURCES[i],
     extra_customers_per_hour |-> Num(0),
     confidence |-> Num(5),
     explanation |-> "Agent error"]

SignalOf(i, result) ==
    IF result.status = "raised"
    THEN [raised |-> FALSE, value |-> FallbackSignal(i)]
    ELSE Normalize(i, result.out)

NoResult ==
    [baseline_customers_per_hour |-> 0,
     signals |-> <<>>,
     final_forecast |-> NoForecast,
     business_insights |-> None]

\* the return value, or the exception of the loop or of combine_signals
Combined(baseline, sig, signals, combined) ==
    IF (\E i \in 1..Len(sig) : sig[i].raised) \/ combined.raised
    THEN [raised |-> TRUE, value |-> NoResult]
    ELSE [raised |-> FALSE,
          value |-> [baseline_customers_per_hour |-> baseline,
                     signals |-> signals,
                     final_forecast |-> combined.value,
                     business_insights |-> None]]

run(results, baseline) ==
    LET sig == [i \in 1..Len(results) |-> SignalOf(i, results[i])]
        signals == [i \in 1..Len(results) |-> sig[i].value]
    IN  Combined(baseline, sig, signals, combine_signals(signals, baseline))

-----------------------------------------------------------------------------
(* main.py: the forecast cache *)

DEFAULT_BASELINE == 4200          \* 42.0
CACHE_TTL_SECONDS == 30 * 60

\* f"{baseline}_{date or ''}_{time or ''}": the three rendered parts
_cache_key(baseline, date, time) ==
    <<baseline,
      IF IsNone(date) THEN "" ELSE Val(date),
      IF IsNone(time) \/ time = Num(0) THEN None ELSE time>>

\* mutant: an entry is still served at its expiry time
_get_cached_late(c, cache_key, now_ts) ==
    IF cache_key \notin DOMAIN c
    THEN [result |-> None, cache |-> c]
    ELSE IF now_ts > c[cache_key].expiry
    THEN [result |-> None,
          cache |-> [k \in DOMAIN c \ {cache_key} |-> c[k]]]
    ELSE [result |-> Num(c[cache_key].result), cache |-> c]

\* mutant: the lookup never finds anything
_get_cached_blind(c, cache_key, now_ts) == [result |-> None, cache |-> c]

\* returns the cached result (or None) and the cache after the lazy eviction
_get_cached(c, cache_key, now_ts) ==
    IF cache_key \notin DOMAIN c
    THEN [result |-> None, cache |-> c]
    ELSE IF now_ts >= c[cache_key].expiry
    THEN [result |-> None,
          cache |-> [k \in DOMAIN c \ {cache_key} |-> c[k]]]
    ELSE [result |-> Num(c[cache_key].result), cache |-> c]

\* mutant: the entry expires the moment it is stored
_set_cached_no_ttl(c, cache_key, result, now_ts) ==
    [k \in DOMAIN c \cup {cache_key} |->
        IF k = cache_key THEN [expiry |-> now_ts, result |-> result] ELSE c[k]]

\* mutant: an existing entry is kept (setdefault)
_set_cached_keep(c, cache_key, result, now_ts) ==
    [k \in DOMAIN c \cup {cache_key} |->
        IF k \in DOMAIN c THEN c[k]
        ELSE [expiry |-> now_ts + CACHE_TTL_SECONDS, result |-> result]]

_set_cached(c, cache_key, result, now_ts) ==
    [k \in DOMAIN c \cup {cache_key} |->
        IF k = cache_key
        THEN [expiry |-> now_ts + CACHE_TTL_SECONDS, result |-> result]
        ELSE c[k]]

-----------------------------------------------------------------------------
(* Bounds and inputs *)

NumRequests == 2        \* requests to GET /api/foot-traffic-forecast
TickSeconds == 900      \* the clock advances in steps of this many seconds
MaxTime == 1800         \* the clock stops here

Requests == 1..NumRequests

\* query parameters: baseline (None: the default), date, time
Baselines == {None, Num(0), Num(4204)}
Dates == {None}
Times == {None}

\* what a provider thread can deliver.  predict_for_datetime passes on the
\* model's predicted_traffic, None when the reply was not JSON, and never a
\* confidence; the other two validate their output before returning it.
WeatherOk == [predicted_traffic |-> Num(120), reasoning |-> "weather"]
WeatherNotJson == [predicted_traffic |-> None, reasoning |-> "raw reply"]
TrafficOk == [expected_extra_customers_per_hour |-> Num(20),
              confidence_0_to_1 |-> Num(80),
              rationale_bullets |-> "traffic"]
SubwayOk == [expected_extra_customers_next_30_min |-> Num(30),
             confidence_0_to_1 |-> Num(30),
             main_drivers |-> "subway"]

ProviderOutputs(i) ==
    CASE i = 1 -> {WeatherOk, WeatherNotJson}
      [] i = 2 -> {TrafficOk}
      [] OTHER -> {SubwayOk}

NoOutput == [error |-> ""]
Running == [status |-> "running", out |-> NoOutput]
Hung == [status |-> "hung", out |-> NoOutput]

Returned(o) == [status |-> "returned", out |-> o]
Raised == [status |-> "raised", out |-> [error |-> "boom"]]

\* a thread that comes back returns a value or raises
Settled(i) == {Returned(o) : o \in ProviderOutputs(i)} \cup {Raised}

\* what agent.run meets in the endpoint's runs: every provider fine, the
\* weather provider raising, its reply not being JSON, every provider raising
GatherResults ==
    {<<Returned(WeatherOk), Returned(TrafficOk), Returned(SubwayOk)>>,
     <<Raised, Returned(TrafficOk), Returned(SubwayOk)>>,
     <<Returned(WeatherNotJson), Returned(TrafficOk), Returned(SubwayOk)>>,
     <<Raised, Raised, Raised>>}

\* LLM bullets: [] or a list
Insights == {None, Num(1)}

\* the baselines the endpoint hands to MasterFootTrafficAgent
BaselineVals == {IF IsNone(b) THEN DEFAULT_BASELINE ELSE Val(b) : b \in Baselines}

\* agent.run tabulated over what gather collected and the baseline
Forecasts ==
    [results \in GatherResults, baseline \in BaselineVals |-> run(results, baseline)]
        @@ <<>>

IdleRequest ==
    [pc |-> "idle", baseline |-> 0, date |-> None, time |-> None,
     key |-> <<0, "", None>>, results |-> <<>>, result |-> NoResult,
     hit |-> FALSE]

NoFusion == [pc |-> "off", baseline |-> 0, signals |-> <<>>,
             out |-> [raised |-> FALSE, value |-> NoForecast],
             upc |-> "off",
             uout |-> [raised |-> FALSE, value |-> NoUForecast]]

NoKeys == [pc |-> "off", q |-> <<>>, key |-> <<>>]

Idle == [pc |-> "idle", request_id |-> ""]
Sleeping == [pc |-> "sleeping", timed_out |-> <<>>]

NoUAgent ==
    [pc |-> "off",
     configured |-> {},         \* the sub-agent addresses that are set
     clients |-> 0,             \* HypeLensRequests still to come
     sub |-> EmptyBag,          \* requests sent to the sub-agents and not
                                \* answered yet: <<provider, request_id>>
     pending |-> <<>>,          \* _pending_requests: request_id -> PendingRequest
     order |-> <<>>,            \* its keys in dict order
     h |-> Idle,                \* the message handler in progress
     t |-> Sleeping,            \* the timeout_check task
     sent |-> EmptyBag,         \* history: the HypeLensResponses sent
     accepted |-> <<>>,         \* history: request_id -> requests accepted
     owed |-> {},               \* history: <<request_id, sender>> not answered
     keyerror |-> {}]           \* history: where a KeyError was raised

NoAgent == [pc |-> "off", baseline |-> 0, p |-> <<>>, done |-> <<>>,
            results |-> <<>>, out |-> [raised |-> FALSE, value |-> NoResult]]

Init ==
    /\ now = 0
    /\ cache = <<>>
    /\ stored = <<>>
    /\ req = [r \in Requests |-> IdleRequest]
    /\ agent = NoAgent
    /\ fz = NoFusion
    /\ ky = NoKeys
    /\ ua = NoUAgent

InFlight(r) == req[r].pc \in {"running", "insights"}
Unexpired(c, k, t) == k \in DOMAIN c /\ t < c[k].expiry

-----------------------------------------------------------------------------
(* get_foot_traffic_forecast, one action per stretch between awaits *)

\* entry up to "await agent.run(...)": the key, the cache lookup, and on a
\* miss the agent is started
Arrive(r, baseline, date, time) ==
    /\ req[r].pc = "idle"
    /\ \A q \in Requests : q < r => req[q].pc # "idle"
    /\ LET baseline_val == IF IsNone(baseline) THEN DEFAULT_BASELINE ELSE Val(baseline)
           key == _cache_key(baseline_val, date, time)
           cached == _get_cached(cache, key, now)
           base == [req[r] EXCEPT !.baseline = baseline_val, !.date = date,
                                  !.time = time, !.key = key]
       IN  /\ cache' = cached.cache
           /\ IF ~IsNone(cached.result)
              THEN req' = [req EXCEPT ![r] =
                              [base EXCEPT !.pc = "returned", !.hit = TRUE,
                                           !.result = Val(cached.result)]]
              ELSE req' = [req EXCEPT ![r] = [base EXCEPT !.pc = "running"]]
    /\ UNCHANGED <<now, stored, agent, fz, ky, ua>>

\* mutant: a failed run leaves an entry behind
RunCompletesCachesError(r, results) ==
    /\ req[r].pc = "running"
    /\ \E res \in {Forecasts[results, req[r].baseline]} :
           IF res.raised
           THEN /\ req' = [req EXCEPT ![r].pc = "failed", ![r].results = results]
                /\ cache' = _set_cached(cache, req[r].key, NoResult, now)
           ELSE /\ req' = [req EXCEPT ![r].pc = "insights", ![r].results = results,
                                      ![r].result = res.value]
                /\ cache' = cache
    /\ UNCHANGED <<now, stored, agent, fz, ky, ua>>

\* agent.run is back with what gather collected; an exception becomes
\* HTTP 500, otherwise the insights thread is started
RunCompletes(r, results) ==
    /\ req[r].pc = "running"
    /\ \E res \in {Forecasts[results, req[r].baseline]} :
           IF res.raised
           THEN req' = [req EXCEPT ![r].pc = "failed", ![r].results = results]
           ELSE req' = [req EXCEPT ![r].pc = "insights", ![r].results = results,
                                   ![r].result = res.value]
    /\ UNCHANGED <<now, cache, stored, agent, fz, ky, ua>>

\* the insights thread is back: store and return
InsightsDone(r, insights) ==
    /\ req[r].pc = "insights"
    /\ LET result == [req[r].result EXCEPT !.business_insights = insights]
           key == req[r].key
       IN  /\ cache' = _set_cached(cache, key, result, now)
           /\ stored' = [k \in DOMAIN stored \cup {key} |->
                            IF k = key
                            THEN [at |-> now, by |-> r,
                                  inflight |-> {q \in Requests : InFlight(q)},
                                  over |-> Unexpired(cache, key, now),
                                  prev |-> IF Unexpired(cache, key, now)
                                           THEN stored[key].by ELSE 0]
                            ELSE stored[k]]
           /\ req' = [req EXCEPT ![r].pc = "returned", ![r].result = result]
    /\ UNCHANGED <<now, agent, fz, ky, ua>>

Tick ==
    /\ now + TickSeconds <= MaxTime
    /\ now' = now + TickSeconds
    /\ UNCHANGED <<cache, stored, req, agent, fz, ky, ua>>

Next ==
    \/ \E r \in Requests, b \in Baselines, d \in Dates, t \in Times : Arrive(r, b, d, t)
    \/ \E r \in Requests, res \in GatherResults : RunCompletes(r, res)
    \/ \E r \in Requests, ins \in Insights : InsightsDone(r, ins)
    \/ Tick

Spec == Init /\ [][Next]_vars

-----------------------------------------------------------------------------
(* One MasterFootTrafficAgent.run call, thread by thread.                    *)
(* agent.p[i] is thread i's state, agent.done the order the threads ended.   *)

RunBaselines == {DEFAULT_BASELINE, 0, 4224}

\* run tabulated over what gather hands back, whatever the order, and the
\* baseline
Deliveries == [1..3 -> UNION {Settled(i) : i \in 1..3}]
Runs ==
    [results \in Deliveries, baseline \in RunBaselines |-> run(results, baseline)]
        @@ <<>>

InitRun ==
    /\ now = 0
    /\ cache = <<>>
    /\ stored = <<>>
    /\ req = [r \in Requests |-> IdleRequest]
    /\ agent = [NoAgent EXCEPT !.pc = "new"]
    /\ fz = NoFusion
    /\ ky = NoKeys
    /\ ua = NoUAgent

\* __init__ and the start of run: three asyncio.to_thread calls under gather
StartRun(baseline) ==
    /\ agent.pc = "new"
    /\ agent' = [agent EXCEPT !.pc = "gathering", !.baseline = baseline,
                              !.p = [i \in 1..3 |-> Running]]
    /\ UNCHANGED <<now, cache, stored, req, fz, ky, ua>>

\* a provider thread returns or raises
ThreadEnds(i, outcome) ==
    /\ agent.pc = "gathering"
    /\ agent.p[i].status = "running"
    /\ agent' = [agent EXCEPT !.p[i] = outcome, !.done = Append(@, i)]
    /\ UNCHANGED <<now, cache, stored, req, fz, ky, ua>>

\* a provider thread blocks for good: nothing in run bounds the wait
ThreadHangs(i) ==
    /\ agent.pc = "gathering"
    /\ agent.p[i].status = "running"
    /\ agent' = [agent EXCEPT !.p[i] = Hung]
    /\ UNCHANGED <<now, cache, stored, req, fz, ky, ua>>

\* mutant: the results in the order the threads ended
GatherByCompletion(p, done) == [k \in 1..Len(done) |-> p[done[k]]]

\* asyncio.gather: the results in the order the awaitables were passed
GatherOrder(p, done) == p

\* gather returns once every thread has ended; the rest of run follows
GatherReturns ==
    /\ agent.pc = "gathering"
    /\ \A i \in 1..3 : agent.p[i].status \in {"returned", "raised"}
    /\ \E results \in {GatherOrder(agent.p, agent.done)} :
       \E res \in {Runs[results, agent.baseline]} :
           agent' = [agent EXCEPT !.pc = IF res.raised THEN "raised" ELSE "done",
                                  !.results = results, !.out = res]
    /\ UNCHANGED <<now, cache, stored, req, fz, ky, ua>>

NextRun ==
    \/ \E b \in RunBaselines : StartRun(b)
    \/ \E i \in 1..3 : \E o \in Settled(i) : ThreadEnds(i, o)
    \/ \E i \in 1..3 : ThreadHangs(i)
    \/ GatherReturns

SpecRun == InitRun /\ [][NextRun]_vars

\* every thread that can end does, and gather returns when it can
FairSpecRun ==
    /\ SpecRun
    /\ WF_vars(GatherReturns)
    /\ \A i \in 1..3 : WF_vars(\E o \in Settled(i) : ThreadEnds(i, o))

-----------------------------------------------------------------------------
(* One combine_signals call on inputs drawn from a grid *)

MaxSignals == 2

Signal(delta, confidence) ==
    [source |-> "provider", extra_customers_per_hour |-> Num(delta),
     confidence |-> Num(confidence), explanation |-> ""]

\* any short list, the empty one included, over a pool of signals
Deltas == {-1000, -10, 30, 100}          \* tenths of a customer per hour
Confidences == {0, 45, 155}              \* hundredths
FusionBaselines == {DEFAULT_BASELINE, 424, 4276}

SignalPool == {Signal(d, c) : d \in Deltas, c \in Confidences}

SignalLists == UNION {[1..n -> SignalPool] : n \in 0..MaxSignals}

\* what run passes: one signal per provider, in any order
ProviderSignals ==
    {Signal(70, 0), Signal(135, 35), Signal(285, 70),
     Signal(100, 80), Signal(20, 50), Signal(-10, 30)}

ProviderSignalLists == [1..Len(SOURCES) -> ProviderSignals]

\* one signal taken whole (confidence 1.0) at and next to 50, 15, -15 and
\* -40 percent of a baseline of 40.0
BoundaryDeltas == {200, 199, 60, 59, -60, -61, -160, -161}

\* <<baseline, signals>>
FusionInputs ==
    (FusionBaselines \X SignalLists)
    \cup ({DEFAULT_BASELINE} \X ProviderSignalLists)
    \cup {<<4000, <<Signal(d, 100)>>>> : d \in BoundaryDeltas}

InitFusion ==
    /\ now = 0
    /\ cache = <<>>
    /\ stored = <<>>
    /\ req = [r \in Requests |-> IdleRequest]
    /\ agent = NoAgent
    /\ \E input \in FusionInputs :
          fz = [NoFusion EXCEPT !.pc = "input", !.upc = "input",
                                !.baseline = input[1], !.signals = input[2]]
    /\ ky = NoKeys
    /\ ua = NoUAgent

Fuse ==
    /\ fz.pc = "input"
    /\ fz' = [fz EXCEPT !.pc = "done",
                        !.out = combine_signals(fz.signals, fz.baseline)]
    /\ UNCHANGED <<now, cache, stored, req, agent, ky, ua>>

\* the same input handed to the uAgents orchestrator's combine_signals
FuseUAgent ==
    /\ fz.upc = "input"
    /\ fz' = [fz EXCEPT !.upc = "done",
                        !.uout = uagent_combine_signals(fz.signals, fz.baseline)]
    /\ UNCHANGED <<now, cache, stored, req, agent, ky, ua>>

NextFusion == Fuse \/ FuseUAgent

SpecFusion == InitFusion /\ [][NextFusion]_vars

-----------------------------------------------------------------------------
(* Two _cache_key calls on queries drawn from a grid *)

KeyBaselines == {DEFAULT_BASELINE, 4204, 0}
KeyDates == {None, Num(""), Num("2026-02-14")}
KeyTimes == {None, Num(0), Num(9)}

\* <<baseline_val, date, time>>
Queries == KeyBaselines \X KeyDates \X KeyTimes

InitKey ==
    /\ now = 0
    /\ cache = <<>>
    /\ stored = <<>>
    /\ req = [r \in Requests |-> IdleRequest]
    /\ agent = NoAgent
    /\ fz = NoFusion
    /\ ua = NoUAgent
    /\ \E q1, q2 \in Queries : ky = [NoKeys EXCEPT !.pc = "input", !.q = <<q1, q2>>]

MakeKeys ==
    /\ ky.pc = "input"
    /\ ky' = [ky EXCEPT !.pc = "done",
                        !.key = <<_cache_key(ky.q[1][1], ky.q[1][2], ky.q[1][3]),
                                  _cache_key(ky.q[2][1], ky.q[2][2], ky.q[2][3])>>]
    /\ UNCHANGED <<now, cache, stored, req, agent, fz, ua>>

NextKey == MakeKeys

SpecKey == InitKey /\ [][NextKey]_vars

-----------------------------------------------------------------------------
(* uagents_system/master_agent_uagent.py: the orchestrator.                  *)
(* The agent runs its message handlers one at a time off its queue, and      *)
(* timeout_check as a task of its own: it runs while a handler waits in      *)
(* ctx.send, and a handler runs while it waits in ctx.send.                  *)

NumClientRequests == 2      \* HypeLensRequests sent in all

\* the request_ids the clients choose from; ids are interchangeable, the
\* first request is given r1
RequestIds == {"r1", "r2"}
IdsOf(k) == IF k = NumClientRequests THEN {"r1"} ELSE RequestIds

\* the k-th client's address
Sender(k) == k

\* the sub-agents, in the order _check_and_finalize lists their signals
Providers == <<"weather", "mta", "traffic">>
AllConfigured == {Providers[i] : i \in 1..3}

\* WEATHER_AGENT_ADDRESS, MTA_AGENT_ADDRESS, TRAFFIC_AGENT_ADDRESS: all set,
\* one missing, none set
Configurations == {AllConfigured, {"weather", "traffic"}, {}}

timeout_seconds == 60
Period == 30

\* ages beyond the first one that is_timed_out tells from the others are
\* not told apart
ElapsedCap == timeout_seconds + Period

\* HypeLensRequest.baseline_customers_per_hour, left at its default
UBaseline == 4200

\* what a sub-agent that succeeds reports: customers per hour, confidence
Reading(p) ==
    CASE p = "weather" -> [value |-> 120, confidence |-> 60]
      [] p = "mta"     -> [value |-> 60, confidence |-> 30]
      [] OTHER         -> [value |-> 20, confidence |-> 80]

HypeLensRequest(id, sender) == [request_id |-> id, sender |-> sender]

\* WeatherResponse, MTAResponse, TrafficResponse; the schema's defaults when
\* the sub-agent reports a failure
SubResponse(p, id, ok) ==
    [type |-> p, request_id |-> id, success |-> ok,
     value |-> IF ok THEN Reading(p).value ELSE 0,
     confidence |-> IF ok THEN Reading(p).confidence ELSE 50]

\* a sub-agent answers with a result, and the weather agent also with
\* success=False
Outcomes(p) == IF p = "weather" THEN BOOLEAN ELSE {TRUE}
SubResponses(p) == {SubResponse(p, id, ok) : id \in RequestIds, ok \in Outcomes(p)}

normalize_weather_signal(resp) ==
    [source |-> "weather_event",
     extra_customers_per_hour |-> IF resp.success THEN Num(resp.value) ELSE Num(0),
     confidence |-> IF resp.success THEN Num(resp.confidence) ELSE Num(5),
     explanation |-> IF resp.success THEN "reasoning" ELSE "Agent error"]

normalize_mta_signal(resp) ==
    [source |-> "mta_subway",
     extra_customers_per_hour |-> IF resp.success THEN Num(resp.value) ELSE Num(0),
     confidence |-> IF resp.success THEN Num(resp.confidence) ELSE Num(5),
     explanation |-> IF resp.success THEN "main_drivers" ELSE "Agent error"]

normalize_traffic_signal(resp) ==
    [source |-> "google_traffic",
     extra_customers_per_hour |-> IF resp.success THEN Num(resp.value) ELSE Num(0),
     confidence |-> IF resp.success THEN Num(resp.confidence) ELSE Num(5),
     explanation |-> IF resp.success THEN "rationale_bullets" ELSE "Agent error"]

\* PendingRequest; elapsed is datetime.now() - started_at
PendingRequest(original_sender) ==
    [original_sender |-> original_sender, elapsed |-> 0,
     weather_response |-> None, mta_response |-> None, traffic_response |-> None]

ResponseField(p) ==
    CASE p = "weather" -> "weather_response"
      [] p = "mta"     -> "mta_response"
      [] OTHER         -> "traffic_response"

is_complete(pending) ==
    /\ ~IsNone(pending.weather_response)
    /\ ~IsNone(pending.mta_response)
    /\ ~IsNone(pending.traffic_response)

is_timed_out(pending) == pending.elapsed > timeout_seconds

\* mutant: only the weather address is looked at
missing_agents_weather(configured) == {"weather"} \ configured

missing_agents(configured) == AllConfigured \ configured

\* the signals _check_and_finalize normalizes
Signals(pending) ==
    <<normalize_weather_signal(Val(pending.weather_response)),
      normalize_mta_signal(Val(pending.mta_response)),
      normalize_traffic_signal(Val(pending.traffic_response))>>

\* the signals timeout_check appends: those of the responses that came
PartialSignals(pending) ==
    (IF IsNone(pending.weather_response) THEN <<>>
     ELSE <<normalize_weather_signal(Val(pending.weather_response))>>)
    \o (IF IsNone(pending.mta_response) THEN <<>>
        ELSE <<normalize_mta_signal(Val(pending.mta_response))>>)
    \o (IF IsNone(pending.traffic_response) THEN <<>>
        ELSE <<normalize_traffic_signal(Val(pending.traffic_response))>>)

\* every PendingRequest the responses can make
Collected ==
    {[PendingRequest(Sender(1)) EXCEPT !.weather_response = w, !.mta_response = m,
                                     !.traffic_response = t] :
        w \in {None} \cup {Num(r) : r \in SubResponses("weather")},
        m \in {None} \cup {Num(r) : r \in SubResponses("mta")},
        t \in {None} \cup {Num(r) : r \in SubResponses("traffic")}}

\* combine_signals tabulated over the signal lists of the orchestrator
UFusions ==
    [signals \in {PartialSignals(c) : c \in Collected} |->
        uagent_combine_signals(signals, UBaseline).value] @@ <<>>

\* timeout_check with no signal at all
NothingCame ==
    [expected_extra_customers_per_hour |-> 0,
     expected_total_customers_per_hour |-> UBaseline \div 10,
     overall_confidence |-> 10,
     summary |-> "Partial data - some agents timed out"]

HypeLensResponse(request_id, to, success, signals, combined, error) ==
    [request_id |-> request_id, to |-> to, success |-> success,
     signals |-> signals,
     expected_extra_customers_per_hour |-> combined.expected_extra_customers_per_hour,
     expected_total_customers_per_hour |-> combined.expected_total_customers_per_hour,
     overall_confidence |-> combined.overall_confidence,
     summary |-> combined.summary,
     error |-> error]

\* the schema's defaults for the fused fields
Unfused ==
    [expected_extra_customers_per_hour |-> 0,
     expected_total_customers_per_hour |-> 0,
     overall_confidence |-> 50,
     summary |-> ""]

\* handle_hypelens_request: the answer when an address is missing
error_response(msg) ==
    HypeLensResponse(msg.request_id, msg.sender, FALSE, <<>>, Unfused,
                     "Orchestrator not configured")

\* _check_and_finalize
final_response(request_id, pending) ==
    HypeLensResponse(request_id, pending.original_sender, TRUE, Signals(pending),
                     UFusions[Signals(pending)], "")

\* timeout_check
timeout_response(request_id, pending) ==
    HypeLensResponse(request_id, pending.original_sender, FALSE,
                     PartialSignals(pending),
                     IF PartialSignals(pending) # <<>>
                     THEN UFusions[PartialSignals(pending)] ELSE NothingCame,
                     "Request timed out")

One(x) == SetToBag({x})

Without(f, k) == [j \in DOMAIN f \ {k} |-> f[j]]
Remove(seq, k) == SelectSeq(seq, LAMBDA j : j # k)

\* await ctx.send(to, response): the response is on its way
Send(u, response) ==
    [u EXCEPT !.sent = @ (+) One(response),
              !.owed = @ \ {<<response.request_id, response.to>>}]

InitUAgent ==
    /\ now = 0
    /\ cache = <<>>
    /\ stored = <<>>
    /\ req = [r \in Requests |-> IdleRequest]
    /\ agent = NoAgent
    /\ fz = NoFusion
    /\ ky = NoKeys
    /\ \E c \in Configurations :
          ua = [NoUAgent EXCEPT !.pc = "on", !.configured = c,
                                !.clients = NumClientRequests,
                                !.accepted = [id \in RequestIds |-> 0]]

\* the entry for msg.request_id is created, over one that is there, and the
\* WeatherRequest is sent
Accepted(u, msg) ==
    [u EXCEPT !.pending = [k \in DOMAIN @ \cup {msg.request_id} |->
                              IF k = msg.request_id
                              THEN PendingRequest(msg.sender) ELSE @[k]],
              !.order = IF msg.request_id \in DOMAIN u.pending
                        THEN @ ELSE Append(@, msg.request_id),
              !.accepted[msg.request_id] = @ + 1,
              !.owed = @ \cup {<<msg.request_id, msg.sender>>},
              !.sub = @ (+) One(<<"weather", msg.request_id>>),
              !.h = [pc |-> "send_mta", request_id |-> msg.request_id]]

\* up to its first await: the error response when an address is missing,
\* otherwise the pending entry and the first of the three requests
handle_hypelens_request(msg) ==
    /\ ua.h.pc = "idle"
    /\ ua.clients > 0
    /\ msg.sender = Sender(ua.clients)
    /\ \E u \in {[ua EXCEPT !.clients = @ - 1]} :
          IF missing_agents(ua.configured) # {}
          THEN ua' = Send(u, error_response(msg))
          ELSE ua' = Accepted(u, msg)
    /\ UNCHANGED <<now, cache, stored, req, agent, fz, ky>>

\* back from the first ctx.send: the MTARequest
SendMTARequest ==
    /\ ua.h.pc = "send_mta"
    /\ ua' = [ua EXCEPT !.sub = @ (+) One(<<"mta", ua.h.request_id>>),
                        !.h.pc = "send_traffic"]
    /\ UNCHANGED <<now, cache, stored, req, agent, fz, ky>>

\* back from the second: the TrafficRequest, and the handler ends
SendTrafficRequest ==
    /\ ua.h.pc = "send_traffic"
    /\ ua' = [ua EXCEPT !.sub = @ (+) One(<<"traffic", ua.h.request_id>>),
                        !.h = Idle]
    /\ UNCHANGED <<now, cache, stored, req, agent, fz, ky>>

\* mutant: no join, whatever has come is fused and sent
_check_and_finalize_unjoined(u, request_id) ==
    IF request_id \notin DOMAIN u.pending THEN u
    ELSE [Send(u, HypeLensResponse(request_id,
                                   u.pending[request_id].original_sender, TRUE,
                                   PartialSignals(u.pending[request_id]),
                                   UFusions[PartialSignals(u.pending[request_id])],
                                   ""))
             EXCEPT !.h = [pc |-> "finalizing", request_id |-> request_id]]

\* _check_and_finalize up to its await: nothing while a response is missing,
\* otherwise the fused response is sent
_check_and_finalize(u, request_id) ==
    IF request_id \notin DOMAIN u.pending THEN u
    ELSE IF ~is_complete(u.pending[request_id]) THEN u
    ELSE [Send(u, final_response(request_id, u.pending[request_id]))
             EXCEPT !.h = [pc |-> "finalizing", request_id |-> request_id]]

\* handle_weather_response, handle_mta_response, handle_traffic_response:
\* the answer to one of the requests sent comes off the queue
HandleResponse(msg) ==
    /\ ua.h.pc = "idle"
    /\ BagIn(<<msg.type, msg.request_id>>, ua.sub)
    /\ \E u \in {[ua EXCEPT !.sub = @ (-) One(<<msg.type, msg.request_id>>)]} :
          IF msg.request_id \notin DOMAIN ua.pending
          THEN ua' = u
          ELSE ua' = _check_and_finalize(
                        [u EXCEPT !.pending[msg.request_id][ResponseField(msg.type)]
                                      = Num(msg)],
                        msg.request_id)
    /\ UNCHANGED <<now, cache, stored, req, agent, fz, ky>>

handle_weather_response == \E msg \in SubResponses("weather") : HandleResponse(msg)
handle_mta_response == \E msg \in SubResponses("mta") : HandleResponse(msg)
handle_traffic_response == \E msg \in SubResponses("traffic") : HandleResponse(msg)

\* back from ctx.send in _check_and_finalize: del _pending_requests[request_id]
FinishFinalize ==
    /\ ua.h.pc = "finalizing"
    /\ IF ua.h.request_id \in DOMAIN ua.pending
       THEN ua' = [ua EXCEPT !.pending = Without(@, ua.h.request_id),
                            !.order = Remove(@, ua.h.request_id),
                            !.h = Idle]
       ELSE ua' = [ua EXCEPT !.keyerror = @ \cup {"_check_and_finalize"},
                            !.h = Idle]
    /\ UNCHANGED <<now, cache, stored, req, agent, fz, ky>>

\* the body of timeout_check's second loop for one id, up to its await
Expire(u, request_id, rest) ==
    [Send(u, timeout_response(request_id, u.pending[request_id]))
        EXCEPT !.pending = Without(@, request_id),
               !.order = Remove(@, request_id),
               !.t = [pc |-> "sending", timed_out |-> rest]]

\* one more period has gone by for every pending request
Aged(u) ==
    [u EXCEPT !.pending =
        [k \in DOMAIN @ |->
            [@[k] EXCEPT !.elapsed = IF @ + Period > ElapsedCap
                                     THEN ElapsedCap ELSE @ + Period]]]

TimedOut(u) == SelectSeq(u.order, LAMBDA k : is_timed_out(u.pending[k]))

\* the interval fires: the timed-out ids are collected and the first is
\* popped and answered
timeout_check ==
    /\ ua.pc = "on"
    /\ ua.t.pc = "sleeping"
    /\ \E u \in {Aged(ua)} :
          IF TimedOut(u) = <<>> THEN ua' = u
          ELSE ua' = Expire(u, Head(TimedOut(u)), Tail(TimedOut(u)))
    /\ UNCHANGED <<now, cache, stored, req, agent, fz, ky>>

\* back from ctx.send in timeout_check: the next id is popped, or the run ends
TimeoutNext ==
    /\ ua.t.pc = "sending"
    /\ IF ua.t.timed_out = <<>>
       THEN ua' = [ua EXCEPT !.t = Sleeping]
       ELSE IF Head(ua.t.timed_out) \notin DOMAIN ua.pending
       THEN ua' = [ua EXCEPT !.keyerror = @ \cup {"timeout_check"}, !.t = Sleeping]
       ELSE ua' = Expire(ua, Head(ua.t.timed_out), Tail(ua.t.timed_out))
    /\ UNCHANGED <<now, cache, stored, req, agent, fz, ky>>

NextUAgent ==
    \/ \E k \in 1..NumClientRequests : \E id \in IdsOf(k) :
          handle_hypelens_request(HypeLensRequest(id, Sender(k)))
    \/ SendMTARequest
    \/ SendTrafficRequest
    \/ handle_weather_response
    \/ handle_mta_response
    \/ handle_traffic_response
    \/ FinishFinalize
    \/ timeout_check
    \/ TimeoutNext

SpecUAgent == InitUAgent /\ [][NextUAgent]_vars

\* the interval keeps firing and every ctx.send returns; the sub-agents
\* owe no answer
FairSpecUAgent ==
    /\ SpecUAgent
    /\ WF_vars(timeout_check)
    /\ WF_vars(TimeoutNext)
    /\ WF_vars(SendMTARequest)
    /\ WF_vars(SendTrafficRequest)
    /\ WF_vars(FinishFinalize)

-----------------------------------------------------------------------------
(* Properties of MasterFootTrafficAgent.run (SpecRun, FairSpecRun) *)

NumericKeys ==
    {"predicted_traffic", "confidence", "expected_extra_customers_per_hour",
     "confidence_0_to_1", "expected_extra_customers_next_30_min"}

\* a returned dict whose numbers are numbers
WellFormed(out) == \A k \in DOMAIN out \cap NumericKeys : ~IsNone(out[k])

GatherBack == agent.pc \in {"done", "raised"}
RaisedProviders == {i \in 1..3 : agent.p[i].status = "raised"}

IsFallback(s) ==
    /\ s.extra_customers_per_hour = Num(0)
    /\ s.confidence = Num(5)
    /\ s.explanation = "Agent error"

\* C1: whichever providers raise (the others returning well-formed dicts) and
\* in whatever order the threads end, run returns a forecast whose signals are
\* three, one per provider in the order weather_event, google_traffic,
\* mta_subway, and exactly the providers that raised are represented by the
\* fallback signal (extra 0.0, confidence 0.05).
C1_GracefulDegradation ==
    (GatherBack /\ \A i \in 1..3 : agent.p[i].status = "returned"
                                      => WellFormed(agent.p[i].out))
    => /\ agent.pc = "done"
       /\ Len(agent.out.value.signals) = 3
       /\ \A i \in 1..3 :
            /\ agent.out.value.signals[i].source = SOURCES[i]
            /\ IsFallback(agent.out.value.signals[i]) <=> i \in RaisedProviders

\* a run that came back with one provider failed, two fine, the failed one
\* not having been the last thread to end
C1_Witness ==
    /\ agent.pc = "done"
    /\ Cardinality(RaisedProviders) = 1
    /\ agent.done # <<1, 2, 3>>
    /\ IsFallback(agent.out.value.signals[2])

\* C5: run always terminates: gather does not wait for ever for a provider
\* that never returns.
C5_RunTerminates == (agent.pc = "gathering") ~> GatherBack

\* C6: when a provider returns a malformed dict (predicted_traffic null)
\* instead of raising, run still returns a forecast.
C6_MalformedAbsorbed ==
    (GatherBack /\ \E i \in 1..3 : /\ agent.p[i].status = "returned"
                                     /\ ~WellFormed(agent.p[i].out))
    => agent.pc = "done"

-----------------------------------------------------------------------------
(* Properties of GET /api/foot-traffic-forecast and its cache (Spec) *)

\* request r enters the handler in this step
Arrives(r) == req[r].pc = "idle" /\ req'[r].pc # "idle"
\* request r calls _set_cached in this step
Stores(r) == req[r].pc = "insights" /\ req'[r].pc = "returned"
Missed(r) == req[r].pc = "returned" /\ ~req[r].hit

\* C2: once a request has stored its result under key k at time t, every
\* request with key k that arrives later and before t + 1800 s returns the
\* stored result at once: no agent is run for it, no provider called.
C2_HitWithinTtl ==
    [][\A r \in Requests :
          LET k == req'[r].key IN
          (Arrives(r) /\ k \in DOMAIN stored
                      /\ now < stored[k].at + CACHE_TTL_SECONDS)
          => /\ req'[r].pc = "returned"
             /\ req'[r].hit
             /\ req'[r].result = req[stored[k].by].result
             /\ req'[r].results = <<>>]_vars

\* a request answered from the cache
C2_Witness ==
    \E r \in Requests :
        /\ req[r].pc = "returned" /\ req[r].hit
        /\ req[r].key \in DOMAIN stored
        /\ req[r].result = req[stored[req[r].key].by].result

\* C3: an entry is never served at or after its expiry: such a lookup is a
\* miss, removes the entry from _FORECAST_CACHE and the request starts the
\* agent; and whatever is served was unexpired when it was looked up.
C3_ExpiredIsMiss ==
    [][\A r \in Requests :
          LET k == req'[r].key IN
          Arrives(r)
          => /\ (k \in DOMAIN cache /\ now >= cache[k].expiry)
                  => /\ k \notin DOMAIN cache'
                     /\ req'[r].pc = "running"
                     /\ ~req'[r].hit
             /\ req'[r].hit
                  => /\ k \in DOMAIN cache
                     /\ now < cache[k].expiry]_vars

\* a request running its agent after it evicted the expired entry of its key
C3_Witness ==
    \E r \in Requests :
        /\ req[r].pc = "running"
        /\ req[r].key \in DOMAIN stored
        /\ now >= stored[req[r].key].at + CACHE_TTL_SECONDS
        /\ req[r].key \notin DOMAIN cache

\* C7: a request whose baseline is <= 0 is rejected before any provider is
\* dispatched and writes nothing to the cache.
C7_InvalidBaselineRejected ==
    \A r \in Requests :
        (req[r].pc # "idle" /\ req[r].baseline <= 0)
        => /\ req[r].pc = "failed"
           /\ req[r].results = <<>>
           /\ req[r].key \notin DOMAIN cache

\* C9 as claimed: an unexpired entry keeps its value and expiry, that is,
\* _set_cached(k) runs only when no unexpired entry for k exists.
C9_NeverUpdatedInPlace ==
    [][\A k \in DOMAIN cache :
          now < cache[k].expiry => (k \in DOMAIN cache' /\ cache'[k] = cache[k])]_vars

\* C9 amended: a request calls _set_cached(k) only after its own lookup of k
\* missed.  An unexpired entry changes only by the _set_cached of a request
\* that was already in flight when the entry was created; the write replaces
\* value and expiry, and the expiry does not move back.
C9_ReplacedOnlyByConcurrentMiss ==
    [][/\ \A r \in Requests : Stores(r) => ~req[r].hit
       /\ \A k \in DOMAIN cache :
            (now < cache[k].expiry /\ ~(k \in DOMAIN cache' /\ cache'[k] = cache[k]))
            => \E r \in stored[k].inflight :
                  /\ Stores(r)
                  /\ req[r].key = k
                  /\ cache' = [cache EXCEPT ![k] =
                                   [expiry |-> now + CACHE_TTL_SECONDS,
                                    result |-> req'[r].result]]
                  /\ cache'[k].expiry >= cache[k].expiry]_vars

\* an unexpired entry has been replaced
C9_Witness == \E k \in DOMAIN stored : stored[k].over

\* C10 as claimed: two requests with one key that both missed and ran
\* concurrently receive the same forecast, and the cache holds it.
C10_ConcurrentMissesConverge ==
    \A k \in DOMAIN stored :
        stored[k].over
        => /\ req[stored[k].by].result = req[stored[k].prev].result
           /\ k \in DOMAIN cache => cache[k].result = req[stored[k].prev].result

\* C10 amended: each request that missed receives the forecast of its own
\* run (with its own insights), and the entry in the cache is the forecast
\* received by the request that stored last, expiring 1800 s after that
\* store; two concurrent misses need not receive the same forecast.
C10_LastStoreWins ==
    /\ \A r \in Requests :
          Missed(r) =>
            /\ ~run(req[r].results, req[r].baseline).raised
            /\ [req[r].result EXCEPT !.business_insights = None]
                  = run(req[r].results, req[r].baseline).value
    /\ \A k \in DOMAIN cache :
          /\ k \in DOMAIN stored
          /\ Missed(stored[k].by)
          /\ req[stored[k].by].key = k
          /\ cache[k] = [expiry |-> stored[k].at + CACHE_TTL_SECONDS,
                         result |-> req[stored[k].by].result]

\* two concurrent misses that received different forecasts
C10_Witness ==
    \E k \in DOMAIN stored :
        /\ stored[k].over
        /\ k \in DOMAIN cache
        /\ req[stored[k].by].result # req[stored[k].prev].result
        /\ cache[k].result = req[stored[k].by].result

-----------------------------------------------------------------------------
(* Properties of combine_signals (SpecFusion) *)

Fused == fz.pc = "done" /\ ~fz.out.raised

\* C4: for every baseline > 0 and every non-empty signal list the returned
\* expected_extra_customers_per_hour lies in [-0.5 * baseline, 1.5 * baseline].
C4_GuardrailBound ==
    (Fused /\ fz.baseline > 0)
    => /\ -5 * fz.baseline <= 100 * fz.out.value.expected_extra_customers_per_hour
       /\ 100 * fz.out.value.expected_extra_customers_per_hour <= 15 * fz.baseline

\* a confidence above 1 replaced by 1.0
ClampConfidence(sig) ==
    [sig EXCEPT !.confidence = Num(IF Val(@) > 100 THEN 100 ELSE Val(@))]

\* C8: a confidence above 1 is clamped to 1.0 before weighting: the fused
\* extra, total, confidence and summary are those of the clamped signals.
C8_ConfidenceClamped ==
    Fused
    => fz.out = combine_signals([i \in 1..Len(fz.signals) |->
                                    ClampConfidence(fz.signals[i])], fz.baseline)

-----------------------------------------------------------------------------
(* Properties of the cache key and of failed runs (Spec) *)

Arrived(r) == req[r].pc # "idle"

\* n / d rounded to the nearest integer, ties to the even one
RoundHalfEven(n, d) ==
    LET q == (2 * n + d) \div (2 * d)
        tie == (2 * n + d) % (2 * d) = 0
    IN  IF tie /\ q % 2 # 0 THEN q - 1 ELSE q

\* C11: two requests with the same date and hour whose baselines are equal
\* after rounding to one decimal get the same key from _cache_key.
C11_KeyRoundsBaseline ==
    \A q, r \in Requests :
        (/\ Arrived(q) /\ Arrived(r)
         /\ req[q].date = req[r].date /\ req[q].time = req[r].time
         /\ RoundHalfEven(req[q].baseline, 10) = RoundHalfEven(req[r].baseline, 10))
        => req[q].key = req[r].key

Fails(r) == req[r].pc = "running" /\ req'[r].pc = "failed"

\* C12: when agent.run raises during a miss the request ends in an error and
\* the cache is left as it was; a request that failed never stores, and a
\* later request with that key that finds no unexpired entry runs the
\* providers again.
C12_FailedRunStoresNothing ==
    [][\A r \in Requests :
          /\ Fails(r) => cache' = cache /\ stored' = stored
          /\ req[r].pc = "failed"
             => /\ req'[r].pc = "failed"
                /\ \A k \in DOMAIN stored' : stored'[k].by # r
                /\ \A q \in Requests :
                      (Arrives(q) /\ req'[q].key = req[r].key
                       /\ ~Unexpired(cache, req[r].key, now))
                      => req'[q].pc = "running"]_vars

\* a request failed, left no entry, and the next one with its key is running
C12_Witness ==
    \E q, r \in Requests :
        /\ req[r].pc = "failed" /\ req[q].pc = "running"
        /\ req[q].key = req[r].key
        /\ req[r].key \notin DOMAIN cache

-----------------------------------------------------------------------------
(* Properties of the fused numbers (SpecFusion, SpecRun).  The exact value   *)
(* of a weighted average is a fraction of integers; a returned number agrees *)
(* with it when it is one of the nearest decimals.                           *)

Extra == fz.out.value.expected_extra_customers_per_hour      \* tenths
Total == fz.out.value.expected_total_customers_per_hour      \* tenths
Confidence == fz.out.value.confidence                        \* hundredths

Abs(n) == IF n < 0 THEN -n ELSE n

RECURSIVE SumSeq(_)
SumSeq(f) == IF Len(f) = 0 THEN 0 ELSE f[1] + SumSeq(Tail(f))

\* w_i = max(0.05, confidence_i), in hundredths
FlooredWeight(sig) == IF Val(sig.confidence) < 5 THEN 5 ELSE Val(sig.confidence)

\* sum(delta_i * w_i) and sum(w_i)
DeltaWeightSum(signals) ==
    SumSeq([i \in 1..Len(signals) |->
               Val(signals[i].extra_customers_per_hour) * FlooredWeight(signals[i])])
WeightSum(signals) == SumSeq([i \in 1..Len(signals) |-> FlooredWeight(signals[i])])

\* the weighted average lies strictly inside the guardrails
InsideGuardrails(signals, baseline) ==
    /\ -baseline * WeightSum(signals) < 20 * DeltaWeightSum(signals)
    /\ 20 * DeltaWeightSum(signals) < 3 * baseline * WeightSum(signals)

\* C13: expected_total_customers_per_hour equals baseline +
\* expected_extra_customers_per_hour, for every baseline > 0 and every
\* non-empty signal list.
C13_TotalIsBaselinePlusExtra ==
    (Fused /\ fz.baseline > 0) => 10 * Total = fz.baseline + 10 * Extra

\* C14: where the guardrails do not bite, the returned extra is
\* sum(delta_i * w_i) / sum(w_i) with w_i = max(0.05, confidence_i), to the
\* nearest tenth: a signal of confidence 0 weighs 0.05.
C14_WeightedAverage ==
    (Fused /\ InsideGuardrails(fz.signals, fz.baseline))
    => 2 * Abs(Extra * WeightSum(fz.signals) - DeltaWeightSum(fz.signals))
          <= WeightSum(fz.signals)

\* a zero-confidence signal has moved the average away from the other one
C14_Witness ==
    /\ Fused /\ InsideGuardrails(fz.signals, fz.baseline)
    /\ fz.signals = <<Signal(100, 0), Signal(30, 45)>>
    /\ Extra = 37

\* C15: the returned confidence is min(1.0, sum(w_i) / n) to the nearest
\* hundredth, and lies in [0, 1].
C15_OverallConfidence ==
    Fused
    => LET n == Len(fz.signals)
           capped == IF WeightSum(fz.signals) > 100 * n THEN 100 * n
                     ELSE WeightSum(fz.signals)
       IN  /\ 0 <= Confidence /\ Confidence <= 100
           /\ 2 * Abs(n * Confidence - capped) <= n

\* the mean weight is above 1 and the confidence returned is 1.0
C15_Witness ==
    /\ Fused
    /\ WeightSum(fz.signals) > 100 * Len(fz.signals)
    /\ Confidence = 100

\* the label of a percentage n / d (d > 0) with inclusive lower boundaries
LabelOf(n, d) ==
    IF n >= 50 * d THEN "Much higher than usual"
    ELSE IF n >= 15 * d THEN "Above baseline today"
    ELSE IF n >= -15 * d THEN "On par with usual"
    ELSE IF n >= -40 * d THEN "Below baseline today"
    ELSE "Much lower than usual"

\* one signal taken whole: the fused extra is its delta
TakenWhole ==
    /\ Fused /\ fz.baseline > 0
    /\ Len(fz.signals) = 1
    /\ fz.signals[1].confidence = Num(100)
    /\ InsideGuardrails(fz.signals, fz.baseline)

\* C16: the summary is the label of extra / baseline * 100 with inclusive
\* lower boundaries: exactly 50, 15, -15 and -40 fall into the higher bucket.
C16_LabelBoundaries ==
    TakenWhole
    => fz.out.value.summary[1] =
          LabelOf(1000 * Val(fz.signals[1].extra_customers_per_hour), fz.baseline)

\* exactly -15 percent: -6.0 on a baseline of 40.0
C16_Witness ==
    /\ TakenWhole
    /\ 1000 * Val(fz.signals[1].extra_customers_per_hour) = -15 * fz.baseline
    /\ fz.out.value.summary[1] = "On par with usual"

\* C17: every permutation of the signals gives the same extra, total,
\* confidence and summary.
C17_Commutative ==
    Fused
    => \A p \in Permutations(1..Len(fz.signals)) :
          combine_signals([i \in 1..Len(fz.signals) |-> fz.signals[p[i]]],
                          fz.baseline) = fz.out

AllRaised == \A i \in 1..3 : agent.p[i].status = "raised"

\* C18: when all three providers fail, run returns extra 0, total = baseline,
\* confidence 0.05 and 'On par with usual', for every baseline > 0.
C18_AllProvidersFail ==
    (GatherBack /\ AllRaised /\ agent.baseline > 0)
    => /\ agent.pc = "done"
       /\ agent.out.value.final_forecast.expected_extra_customers_per_hour = 0
       /\ 10 * agent.out.value.final_forecast.expected_total_customers_per_hour
             = agent.baseline
       /\ agent.out.value.final_forecast.confidence = 5
       /\ agent.out.value.final_forecast.summary[1] = "On par with usual"

\* baseline 42.0 with the signals (+10, 0.8), (+2, 0.5), (-1, 0.3)
Scenario1 ==
    /\ fz.pc = "done"
    /\ fz.baseline = 4200
    /\ fz.signals = <<Signal(100, 80), Signal(20, 50), Signal(-10, 30)>>

\* C19: scenario 1 yields an extra of about 4.57 and a total of about 46.57.
C19_Scenario1AsStated ==
    Scenario1 => /\ ~fz.out.raised
                 /\ Extra \in 45..46
                 /\ Total \in 465..466

\* C19 amended: (10 * 0.8 + 2 * 0.5 - 1 * 0.3) / 1.6 = 8.7 / 1.6 = 5.4375:
\* scenario 1 returns an extra of 5.4 and a total of 47.4.
C19_Scenario1 ==
    Scenario1 => /\ ~fz.out.raised
                 /\ Extra = 54
                 /\ Total = 474

C19_Witness == Scenario1 /\ Extra = 54

\* C20: with an empty signal list combine_signals does not fail and returns
\* extra 0 and total = baseline.
C20_EmptyListDefaults ==
    (fz.pc = "done" /\ fz.signals = <<>>)
    => /\ ~fz.out.raised
       /\ Extra = 0
       /\ 10 * Total = fz.baseline

-----------------------------------------------------------------------------
(* Properties of the signals run returns (SpecRun) *)

\* C21: every signal of a returned forecast carries a succeeded flag, and the
\* flag is false exactly for the providers that failed.
C21_SucceededFlag ==
    agent.pc = "done"
    => \A i \in 1..3 :
          /\ "succeeded" \in DOMAIN agent.out.value.signals[i]
          /\ agent.out.value.signals[i].succeeded = (agent.results[i].status # "raised")

-----------------------------------------------------------------------------
(* Properties of _cache_key (SpecKey) *)

\* C28: _cache_key maps two requests to the same key only if they agree on
\* baseline, date and hour, hour 0 versus no hour and an empty date versus no
\* date included.
C28_KeyInjective ==
    (ky.pc = "done" /\ ky.key[1] = ky.key[2]) => ky.q[1] = ky.q[2]

-----------------------------------------------------------------------------
(* The two combine_signals compared (SpecFusion) *)

BothFused == fz.pc = "done" /\ fz.upc = "done"

\* C29: for every signal list and every baseline the two combine_signals fail
\* together, and otherwise return the same extra, total, overall confidence
\* and summary text.
C29_UAgentMirrors ==
    BothFused
    => /\ fz.out.raised = fz.uout.raised
       /\ ~fz.out.raised
          => /\ fz.out.value.expected_extra_customers_per_hour
                  = fz.uout.value.expected_extra_customers_per_hour
             /\ fz.out.value.expected_total_customers_per_hour
                  = fz.uout.value.expected_total_customers_per_hour
             /\ fz.out.value.confidence = fz.uout.value.overall_confidence
             /\ fz.out.value.summary = <<fz.uout.value.summary>>

-----------------------------------------------------------------------------
(* Properties of the uAgents orchestrator (SpecUAgent, FairSpecUAgent) *)

\* the HypeLensResponses sent so far, and those the step sends
Sent == BagToSet(ua.sent)
SentNow == {m \in BagToSet(ua'.sent) : CopiesIn(m, ua'.sent) > CopiesIn(m, ua.sent)}

\* built from sub-agent data: by _check_and_finalize or by timeout_check
FromSubAgents(m) == m.error # "Orchestrator not configured"

\* how many of them carry the request_id
Answers(id) ==
    BagCardinality([m \in {x \in Sent : x.request_id = id /\ FromSubAgents(x)}
                       |-> ua.sent[m]])

\* C22: every accepted HypeLensRequest eventually gets a HypeLensResponse
\* sent to its original sender, whether or not the sub-agents answer, while
\* the interval keeps firing.
C22_EveryRequestAnswered ==
    \A id \in RequestIds : \A k \in 1..NumClientRequests :
        (<<id, Sender(k)>> \in ua.owed) ~> (<<id, Sender(k)>> \notin ua.owed)

\* C23: at most one HypeLensResponse is sent for each accepted request.
C23_AtMostOneResponse ==
    \A id \in RequestIds : Answers(id) <= ua.accepted[id]

\* a response handler takes the answer to <<provider, request_id>> off the
\* queue
Handles(p, id) ==
    /\ ua.h.pc = "idle"
    /\ CopiesIn(<<p, id>>, ua'.sub) < CopiesIn(<<p, id>>, ua.sub)

\* C24: a HypeLensResponse with success=True is sent only when the pending
\* entry of its request_id holds a WeatherResponse, an MTAResponse and a
\* TrafficResponse; a response handler that leaves the entry incomplete
\* sends nothing and keeps the entry.
C24_JoinBeforeFuse ==
    [][/\ \A m \in SentNow :
             m.success
             => /\ m.request_id \in DOMAIN ua'.pending
                /\ \A i \in 1..3 :
                      /\ ~IsNone(ua'.pending[m.request_id][ResponseField(Providers[i])])
                      /\ Val(ua'.pending[m.request_id][ResponseField(Providers[i])])
                            .request_id = m.request_id
        /\ \A i \in 1..3, id \in RequestIds :
             (/\ Handles(Providers[i], id)
              /\ id \in DOMAIN ua.pending
              /\ \E j \in 1..3 : /\ j # i
                                  /\ IsNone(ua.pending[id][ResponseField(Providers[j])]))
             => /\ ua'.sent = ua.sent
                /\ id \in DOMAIN ua'.pending
                /\ ua'.pending[id].original_sender = ua.pending[id].original_sender
       ]_vars

\* the fused response went out after the third answer, and an earlier answer
\* left the entry waiting
C24_Witness ==
    /\ \E m \in Sent : m.success
    /\ \E id \in DOMAIN ua.pending :
          /\ ~IsNone(ua.pending[id].weather_response)
          /\ IsNone(ua.pending[id].mta_response)

\* C25: every HypeLensResponse built from sub-agent data, by
\* _check_and_finalize or by timeout_check, carries exactly one signal for
\* each of the three providers.
C25_OneSignalPerProvider ==
    \A m \in Sent :
        FromSubAgents(m)
        => /\ Len(m.signals) = 3
           /\ {m.signals[i].source : i \in 1..3}
                = {"weather_event", "mta_subway", "google_traffic"}

\* C26: neither _check_and_finalize nor timeout_check removes a request_id
\* that is no longer in _pending_requests: no KeyError.
C26_NoKeyError == ua.keyerror = {}

\* the step is _check_and_finalize's or timeout_check's removal of id
Removes(id) ==
    \/ ua.h.pc = "finalizing" /\ ua.h.request_id = id /\ ua'.h.pc = "idle"
    \/ ua'.t # ua.t

\* C27: an entry of _pending_requests, with its original sender and the
\* responses collected so far, is removed only by _check_and_finalize or
\* timeout_check for that request; accepting a request never discards or
\* replaces it.
C27_PendingKept ==
    [][\A id \in DOMAIN ua.pending :
          \/ Removes(id) /\ id \notin DOMAIN ua'.pending
          \/ /\ id \in DOMAIN ua'.pending
             /\ ua'.pending[id].original_sender = ua.pending[id].original_sender
             /\ \A i \in 1..3 :
                   ~IsNone(ua.pending[id][ResponseField(Providers[i])])
                   => ua'.pending[id][ResponseField(Providers[i])]
                        = ua.pending[id][ResponseField(Providers[i])]
      ]_vars

\* the step is handle_hypelens_request taking a request
Takes == ua'.clients < ua.clients

\* C30: when a sub-agent address is not configured, handle_hypelens_request
\* answers the sender with exactly one HypeLensResponse with success=False,
\* sends no request to any sub-agent and leaves _pending_requests unchanged.
C30_NotConfigured ==
    [][(Takes /\ ua.configured # AllConfigured)
       => /\ \E m \in SentNow :
                /\ ua'.sent = ua.sent (+) One(m)
                /\ ~m.success
                /\ m.to = Sender(ua.clients)
          /\ ua'.sub = ua.sub
          /\ ua'.pending = ua.pending
          /\ ua'.h.pc = "idle"
      ]_vars

\* only the MTA address is missing and a request has been answered
C30_Witness ==
    /\ ua.configured = {"weather", "traffic"}
    /\ \E m \in Sent : ~m.success /\ ~FromSubAgents(m)
    /\ ua.clients = 0


====
